---- MODULE Spec2Model ----
(***************************************************************************)
(* Instagram Reel Slider: the video lifecycle tracker of the content       *)
(* script (createControls / cleanupVideo, the MutationObserver callback,   *)
(* the start-up pass and the debug interface) over a small DOM, and the    *)
(* playback commands (the geometry selector, the nine command handlers and *)
(* the message listener) over the media attributes of the page's videos.   *)
(*                                                                         *)
(* The DOM is a forest of element nodes.  The document is the tree rooted  *)
(* at Body; every other tree is a detached subtree the page still holds.   *)
(* An overlay container (div.custom-seek-container) and the range input    *)
(* inside it are one node of the model, a leaf.                            *)
(***************************************************************************)
EXTENDS Integers, Sequences, FiniteSets, TLC

\* ------------------------------------------------------------------ bounds

\* pending mutation records the page may queue before the callback runs
MaxRecords == 2
\* videos of a document handed to the geometry selector on its own
MaxProbe == 3
\* overlay container elements that can be alive at once
MaxContainers == 2
\* the longest video, in seconds, of the page a user scrubs in
MaxTime == 4

\* boxes and viewports of the near-viewport check have sides of 0..MaxEdge
\* and boxes start at -MaxOffset..MaxOffset
MaxEdge == 2
MaxOffset == 3

\* ------------------------------------------------------------------- nodes

NoNode == <<"none", 0>>
Body == <<"body", 0>>
\* page-owned wrapper elements; div 1 is positioned (position: relative)
Wrappers == {<<"div", 1>>}
Positioned == {<<"div", 1>>}
\* page-owned video elements
Videos == {<<"video", 1>>, <<"video", 2>>}
\* overlay containers the script can create
Containers == {<<"seek", i>> : i \in 1..MaxContainers}

PageNodes == Wrappers \cup Videos
\* nodes that have a child list in the model
Parents == {Body} \cup Wrappers

\* correlation identifiers (data-custom-id / data-for-video); NoId = undefined
NoId == "undefined"
Ids == {NoId, "a"}

VideoEvents == {"timeupdate", "loadedmetadata", "seeked"}
\* bindings on the overlay: <<target, event>>
ControlBindings == {<<"slider", "input">>, <<"slider", "click">>,
                    <<"container", "click">>, <<"container", "mousedown">>}

\* ---------------------------------------------------------------- variables

VARIABLES
  children,    \* DOM: children[p] is the ordered child list of p
  customId,    \* page attribute video.dataset.customId
  enhanced,    \* the WeakSet `enhanced`
  cleanupMap,  \* the WeakMap `cleanupMap`: video -> container its closure holds
  owner,       \* container -> the video its handlers close over
  attachedAt,  \* container -> the attachment point it was appended to
  vListeners,  \* listeners on videos: <<video, event, container>>
  cListeners,  \* listeners on overlays: <<container, target, event>>
  records,     \* MutationRecords queued for the observer, oldest first
  transient,   \* detached wrappers that carry a transient registered observer
  lastOp,      \* the last handler that ran and the lifecycle calls it made
  mounted,     \* history: videos that have been in the document while tracked
               \* (in `enhanced` or `cleanupMap`) and not torn down since
  faulty,      \* videos on which createControls throws
  faultAt,     \* the statement of createControls that throws on them
  media,       \* video -> its paused, currentTime, duration, volume, playbackRate
  rect,        \* video -> its getBoundingClientRect()
  inner,       \* window.innerWidth and window.innerHeight
  probe,       \* the boxes of a document's videos handed to the selector
  boot,        \* how far the script's top-level statements have run, and
               \* what the page's environment withholds from them
  sliders,     \* container -> value, max and fill of its range input
  focus,       \* the container whose slider is document.activeElement
  second       \* a second copy of the script in the same page: whether it
               \* runs, its own `enhanced` and `cleanupMap`, and the records
               \* queued for its observer

vars == <<children, customId, enhanced, cleanupMap, owner, attachedAt,
          vListeners, cListeners, records, transient, lastOp, mounted,
          faulty, faultAt, media, rect, inner, probe, boot, sliders, focus,
          second>>

\* what the lifecycle handlers never touch
others == <<faulty, faultAt, media, rect, inner, probe, boot, second>>

\* what the lifecycle tracker holds
tracker == <<children, enhanced, cleanupMap, owner, attachedAt, vListeners,
             cListeners, records, transient, mounted>>

\* ------------------------------------------------------------- DOM queries

Range(s) == {s[i] : i \in 1..Len(s)}

Min(a, b) == IF a < b THEN a ELSE b
Max(a, b) == IF a > b THEN a ELSE b

Last(s) == s[Len(s)]

RemoveFrom(s, x) == SelectSeq(s, LAMBDA y : y # x)

\* node.parentElement
ParentOf(ch, n) ==
  IF \E p \in Parents : n \in Range(ch[p])
  THEN CHOOSE p \in Parents : n \in Range(ch[p])
  ELSE NoNode

RECURSIVE InclusiveAncestors(_, _)
InclusiveAncestors(ch, n) ==
  IF n = NoNode THEN {}
  ELSE {n} \cup InclusiveAncestors(ch, ParentOf(ch, n))

\* node.isConnected
Connected(ch, n) == Body \in InclusiveAncestors(ch, n)

\* descendants of the nodes of a child list, in tree order
RECURSIVE Flatten(_, _)
Flatten(ch, s) ==
  IF s = <<>> THEN <<>>
  ELSE LET h == Head(s)
       IN  <<h>> \o (IF h \in Parents THEN Flatten(ch, ch[h]) ELSE <<>>)
                 \o Flatten(ch, Tail(s))

Descendants(ch, n) == IF n \in Parents THEN Flatten(ch, ch[n]) ELSE <<>>

\* node.querySelectorAll('video')
QueryVideos(ch, n) == SelectSeq(Descendants(ch, n), LAMBDA x : x \in Videos)

\* node.querySelector('.custom-seek-container'): first match in tree order
QueryContainer(ch, n) ==
  LET found == SelectSeq(Descendants(ch, n), LAMBDA x : x \in Containers)
  IN  IF found = <<>> THEN NoNode ELSE Head(found)

\* getComputedStyle(el).position; the style of a disconnected element is empty
ComputedPosition(ch, el) ==
  IF ~Connected(ch, el) THEN ""
  ELSE IF el \in Positioned THEN "relative" ELSE "static"

\* video.offsetParent of a rendered video: the nearest positioned ancestor,
\* else the body; null when the video is not connected
RECURSIVE NearestPositioned(_, _)
NearestPositioned(ch, el) ==
  IF el = NoNode \/ el = Body THEN Body
  ELSE IF el \in Positioned THEN el
  ELSE NearestPositioned(ch, ParentOf(ch, el))

OffsetParent(ch, v) ==
  IF Connected(ch, v) THEN NearestPositioned(ch, ParentOf(ch, v)) ELSE NoNode

\* the ancestor walk of findAttachmentParent
RECURSIVE WalkPositioned(_, _)
WalkPositioned(ch, el) ==
  IF el = NoNode \/ el = Body THEN NoNode
  ELSE IF ComputedPosition(ch, el) \notin {"", "static"} THEN el
  ELSE WalkPositioned(ch, ParentOf(ch, el))

findAttachmentParent(ch, v) ==
  IF v = NoNode THEN NoNode
  ELSE IF OffsetParent(ch, v) # NoNode THEN OffsetParent(ch, v)
  ELSE IF WalkPositioned(ch, ParentOf(ch, v)) # NoNode
       THEN WalkPositioned(ch, ParentOf(ch, v))
  ELSE IF ParentOf(ch, v) # NoNode THEN ParentOf(ch, v)
  ELSE Body

\* ------------------------------------------------------- progress renderer
\* Times are whole seconds.  A slider is the value and max of the range input
\* and the percentage of its gradient, kept as a fraction in lowest terms.

\* the duration of a video whose metadata has not loaded
NaN == -1000

IsNaN(x) == x = NaN

RECURSIVE Gcd(_, _)
Gcd(a, b) == IF b = 0 THEN a ELSE Gcd(b, a % b)

\* n / d for d > 0 and n >= 0
Ratio(n, d) == <<n \div Gcd(n, d), d \div Gcd(n, d)>>

\* document.createElement('input') with type range, min 0, value 0: max is
\* the default of a range input and no background is set
Blank == [value |-> 0, max |-> 100, fill |-> <<>>]

\* a range input keeps its value inside [min, max], and at min when max < min
Sanitize(x, max) == IF max < 0 THEN 0 ELSE Max(0, Min(max, x))

\* slider.value = x
SetValue(sl, x) == [sl EXCEPT !.value = Sanitize(x, sl.max)]

\* slider.max = d
SetMax(sl, d) == [sl EXCEPT !.max = d, !.value = Sanitize(sl.value, d)]

\* Math.max(0, Math.min(100, (cur / dur) * 100)) for dur > 0
Percent(cur, dur) ==
  IF cur > dur THEN <<100, 1>>
  ELSE IF cur < 0 THEN <<0, 1>>
  ELSE Ratio(100 * cur, dur)

\* updateProgress without Math.min(100, ...)
updateProgressUnclamped(sls, md, video, slider, active) ==
  IF video = NoNode \/ slider = NoNode THEN sls
  ELSE
    LET dur == md[video].duration
        cur == md[video].currentTime
    IN  IF ~IsNaN(dur) /\ dur > 0
        THEN LET filled == [sls[slider] EXCEPT
                              !.fill = IF cur < 0 THEN <<0, 1>>
                                       ELSE Ratio(100 * cur, dur)]
                 synced == IF active # slider THEN SetValue(filled, cur)
                           ELSE filled
             IN  [sls EXCEPT ![slider] = SetMax(synced, dur)]
        ELSE [sls EXCEPT ![slider].fill = <<0, 1>>]

\* updateProgress without the document.activeElement test
updateProgressClobbers(sls, md, video, slider, active) ==
  IF video = NoNode \/ slider = NoNode THEN sls
  ELSE
    LET dur == md[video].duration
        cur == md[video].currentTime
    IN  IF ~IsNaN(dur) /\ dur > 0
        THEN LET filled == [sls[slider] EXCEPT !.fill = Percent(cur, dur)]
             IN  [sls EXCEPT ![slider] = SetMax(SetValue(filled, cur), dur)]
        ELSE [sls EXCEPT ![slider].fill = <<0, 1>>]

\* updateProgress(video, slider), with document.activeElement
updateProgress(sls, md, video, slider, active) ==
  IF video = NoNode \/ slider = NoNode THEN sls
  ELSE
    LET dur == md[video].duration
        cur == md[video].currentTime
    IN  IF ~IsNaN(dur) /\ dur > 0
        THEN LET filled == [sls[slider] EXCEPT !.fill = Percent(cur, dur)]
                 synced == IF active # slider THEN SetValue(filled, cur)
                           ELSE filled
             IN  [sls EXCEPT ![slider] = SetMax(synced, dur)]
        ELSE [sls EXCEPT ![slider].fill = <<0, 1>>]

\* if (!isNaN(video.duration)) slider.max = video.duration;
\* updateProgress(video, slider)
onLoadedMetadata(sls, md, video, slider, active) ==
  updateProgress(
    IF ~IsNaN(md[video].duration)
    THEN [sls EXCEPT ![slider] = SetMax(@, md[video].duration)]
    ELSE sls,
    md, video, slider, active)

onTimeUpdate(sls, md, video, slider, active) ==
  updateProgress(sls, md, video, slider, active)

onSeeked(sls, md, video, slider, active) ==
  updateProgress(sls, md, video, slider, active)

\* ------------------------------------------------------ lifecycle manager
\* The tracker's state as one record, so that createControls and cleanupVideo
\* are functions from state to state and handlers can chain them.

Cur ==
  [children |-> children, enhanced |-> enhanced, cleanupMap |-> cleanupMap,
   owner |-> owner, attachedAt |-> attachedAt, vListeners |-> vListeners,
   cListeners |-> cListeners, sliders |-> sliders, calls |-> <<>>]

\* the tracker's state without the call log
Tracking(s) == [s EXCEPT !.calls = <<>>]

Logged(s, fn, n, outcome) ==
  [s EXCEPT !.calls = Append(@, <<fn, n, outcome>>)]

\* an exception is propagating out of the last call
Threw(s) == s.calls # <<>> /\ Last(s.calls)[3] = "threw"

\* try { ... } catch (e) { }
Catch(s) == IF Threw(s) THEN Logged(s, "catch", NoNode, "caught") ELSE s

\* a container element is alive while the tree, a cleanup closure or a
\* registered listener refers to it
InUse(s, c) ==
  \/ ParentOf(s.children, c) # NoNode
  \/ \E v \in Videos : s.cleanupMap[v] = c
  \/ \E l \in s.vListeners : l[3] = c
  \/ \E l \in s.cListeners : l[1] = c

FreeContainers(s) == {c \in Containers : ~InUse(s, c)}

\* document.createElement('div') in createControls(v): an unused element, the
\* one numbered like the video when it is free, else the one of least index
NewContainer(s, v) ==
  IF <<"seek", v[2]>> \in FreeContainers(s) THEN <<"seek", v[2]>>
  ELSE CHOOSE c \in FreeContainers(s) : \A d \in FreeContainers(s) : c[2] <= d[2]

\* forget what a dead container element was
Collect(s) ==
  [s EXCEPT !.owner = [c \in Containers |-> IF InUse(s, c) THEN @[c] ELSE NoNode],
            !.attachedAt = [c \in Containers |-> IF InUse(s, c) THEN @[c] ELSE NoNode],
            !.sliders = [c \in Containers |-> IF InUse(s, c) THEN @[c] ELSE Blank]]

\* existing.dataset.forVideo: no statement of the script ever sets it
ForVideo(c) == NoId

\* existing.dataset.forVideo === video.dataset.customId
Linked(existing, v) == ForVideo(existing) = customId[v]

\* the listeners createControls registers for video v and container c
VideoBindings(v, c) == {<<v, e, c>> : e \in VideoEvents}
OverlayBindings(c) == {<<c, b[1], b[2]>> : b \in ControlBindings}

\* cleanup that forgets removeChild: the overlay stays under its parent
cleanupKeepsOverlay(s, v, c) ==
  Collect([s EXCEPT !.vListeners = @ \ VideoBindings(v, c),
                    !.cListeners = @ \ OverlayBindings(c),
                    !.enhanced = @ \ {v},
                    !.cleanupMap[v] = NoNode])

\* cleanup that forgets removeEventListener('seeked', onSeeked)
cleanupLeavesSeeked(s, v, c) ==
  LET p == ParentOf(s.children, c)
      unbound == [s EXCEPT !.vListeners = @ \ (VideoBindings(v, c) \ {<<v, "seeked", c>>}),
                           !.cListeners = @ \ OverlayBindings(c)]
      removed == IF p # NoNode
                 THEN [unbound EXCEPT !.children[p] = RemoveFrom(@, c)]
                 ELSE unbound
  IN  Collect([removed EXCEPT !.enhanced = @ \ {v},
                              !.cleanupMap[v] = NoNode])

\* the cleanup closure made for video v and container c
cleanup(s, v, c) ==
  LET p == ParentOf(s.children, c)
      unbound == [s EXCEPT !.vListeners = @ \ VideoBindings(v, c),
                           !.cListeners = @ \ OverlayBindings(c)]
      removed == IF p # NoNode
                 THEN [unbound EXCEPT !.children[p] = RemoveFrom(@, c)]
                 ELSE unbound
  IN  Collect([removed EXCEPT !.enhanced = @ \ {v},
                              !.cleanupMap[v] = NoNode])

\* cleanupVideo without the `typeof fn === 'function'` guard: calling the
\* missing record raises a TypeError
cleanupVideoUnguarded(s, n) ==
  IF n \in Videos /\ s.cleanupMap[n] # NoNode
  THEN Logged(cleanup(s, n, s.cleanupMap[n]), "cleanupVideo", n, "torn-down")
  ELSE Logged(s, "cleanupVideo", n, "threw")

cleanupVideo(s, n) ==
  IF n = NoNode THEN Logged(s, "cleanupVideo", n, "no-video")
  ELSE IF n \notin Videos \/ s.cleanupMap[n] = NoNode
       THEN Logged(s, "cleanupVideo", n, "no-record")
  ELSE Logged(cleanup(s, n, s.cleanupMap[n]), "cleanupVideo", n, "torn-down")

\* createControls without the `enhanced.has(video)` guard
createControlsUnguarded(s, n) ==
  IF n = NoNode \/ n \notin Videos THEN Logged(s, "createControls", n, "not-video")
  ELSE
    LET parent == findAttachmentParent(s.children, n)
        existing == QueryContainer(s.children, parent)
    IN  IF existing # NoNode /\ Linked(existing, n)
        THEN Logged([s EXCEPT !.enhanced = @ \cup {n}],
                    "createControls", n, "linked")
        ELSE IF FreeContainers(s) = {}
             THEN Logged(s, "createControls", n, "pool-exhausted")
        ELSE
          LET c == NewContainer(s, n)
          IN  Logged([s EXCEPT !.cListeners = @ \cup OverlayBindings(c),
                               !.vListeners = @ \cup VideoBindings(n, c),
                               !.children[parent] = Append(@, c),
                               !.owner[c] = n,
                               !.attachedAt[c] = parent,
                               !.sliders = onLoadedMetadata(@, media, n, c, NoNode),
                               !.enhanced = @ \cup {n},
                               !.cleanupMap[n] = c],
                     "createControls", n, "created")

\* the statements of createControls at which the environment can make a call
\* throw: the layout query of findAttachmentParent, parent.appendChild, and
\* the initial sync of the slider
FaultSteps == {"layout", "insert", "sync"}

\* createControls(n) throws at statement `step`
ThrowsAt(n, step) == n \in faulty /\ faultAt = step

createControls(s, n) ==
  IF n = NoNode \/ n \notin Videos THEN Logged(s, "createControls", n, "not-video")
  ELSE IF n \in s.enhanced THEN Logged(s, "createControls", n, "already")
  ELSE IF ThrowsAt(n, "layout") THEN Logged(s, "createControls", n, "threw")
  ELSE
    LET parent == findAttachmentParent(s.children, n)
        existing == QueryContainer(s.children, parent)
    IN  IF parent = NoNode THEN Logged(s, "createControls", n, "no-parent")
        ELSE IF existing # NoNode /\ Linked(existing, n)
             THEN Logged([s EXCEPT !.enhanced = @ \cup {n}],
                         "createControls", n, "linked")
        ELSE IF FreeContainers(s) = {}
             THEN Logged(s, "createControls", n, "pool-exhausted")
        ELSE
          LET c == NewContainer(s, n)
              bound == [s EXCEPT !.cListeners = @ \cup OverlayBindings(c),
                                 !.vListeners = @ \cup VideoBindings(n, c),
                                 !.owner[c] = n]
              inserted == [bound EXCEPT !.children[parent] = Append(@, c),
                                        !.attachedAt[c] = parent]
          IN  IF ThrowsAt(n, "insert")
              THEN Logged(bound, "createControls", n, "threw")
              ELSE IF ThrowsAt(n, "sync")
              THEN Logged(inserted, "createControls", n, "threw")
              ELSE
                Logged([inserted EXCEPT
                          !.sliders = onLoadedMetadata(@, media, n, c, NoNode),
                          !.enhanced = @ \cup {n},
                          !.cleanupMap[n] = c],
                       "createControls", n, "created")

\* vids.forEach((v) => createControls(v)): an exception ends the loop
RECURSIVE CreateAll(_, _)
CreateAll(s, vids) ==
  IF vids = <<>> THEN s
  ELSE LET t == createControls(s, Head(vids))
       IN  IF Threw(t) THEN t ELSE CreateAll(t, Tail(vids))

\* forEach((v) => { try { createControls(v) } catch (e) {} })
RECURSIVE CreateEachCaught(_, _)
CreateEachCaught(s, vids) ==
  IF vids = <<>> THEN s
  ELSE CreateEachCaught(Catch(createControls(s, Head(vids))), Tail(vids))

\* vids.forEach((v) => cleanupVideo(v))

RECURSIVE CleanupEach(_, _)
CleanupEach(s, vids) ==
  IF vids = <<>> THEN s ELSE CleanupEach(cleanupVideo(s, Head(vids)), Tail(vids))

\* ------------------------------------------------------- mutation watcher

\* one entry of mutation.addedNodes
OnAdded(s, node) ==
  Catch(IF node \in Videos THEN createControls(s, node)
        ELSE CreateAll(s, QueryVideos(s.children, node)))

\* one entry of mutation.removedNodes
OnRemoved(s, node) ==
  Catch(IF node \in Videos THEN cleanupVideo(s, node)
        ELSE CleanupEach(s, QueryVideos(s.children, node)))

RECURSIVE EachAdded(_, _)
EachAdded(s, nodes) ==
  IF nodes = <<>> THEN s ELSE EachAdded(OnAdded(s, Head(nodes)), Tail(nodes))

RECURSIVE EachRemoved(_, _)
EachRemoved(s, nodes) ==
  IF nodes = <<>> THEN s ELSE EachRemoved(OnRemoved(s, Head(nodes)), Tail(nodes))

\* a callback that handles the removed nodes of a record before the added
RECURSIVE RemovedFirst(_, _)
RemovedFirst(s, ms) ==
  IF ms = <<>> THEN s
  ELSE RemovedFirst(
         EachAdded(EachRemoved(s, Head(ms).removed), Head(ms).added), Tail(ms))

\* the observer callback: every record in order, added nodes before removed
RECURSIVE ProcessMutations(_, _)
ProcessMutations(s, ms) ==
  IF ms = <<>> THEN s
  ELSE ProcessMutations(
         EachRemoved(EachAdded(s, Head(ms).added), Head(ms).removed), Tail(ms))

\* the initial pass: every video of the document in a try of its own
EnhanceDocument(s) == CreateEachCaught(s, QueryVideos(s.children, Body))

\* ----------------------------------------------------------- debug interface

\* `new WeakMap()`: a WeakMap has no forEach method, so the guards
\* `cleanupMap.forEach && ...` of the debug interface never run their loop
WeakMapHasForEach == FALSE

\* __instaScrubber.enhanceAll():
\* document.querySelectorAll('video').forEach(createControls)
enhanceAll(s) == CreateAll(s, QueryVideos(s.children, Body))

\* __instaScrubber.enhancedCount()
enhancedCount(s) ==
  IF WeakMapHasForEach
  THEN Cardinality({v \in Videos : s.cleanupMap[v] # NoNode})
  ELSE 0

RECURSIVE RunCleanups(_, _)
RunCleanups(s, vs) ==
  IF vs = {} THEN s
  ELSE LET v == CHOOSE x \in vs : TRUE
       IN  RunCleanups(cleanup(s, v, s.cleanupMap[v]), vs \ {v})

\* __instaScrubber.cleanupAll()
cleanupAll(s) ==
  IF WeakMapHasForEach
  THEN RunCleanups(s, {v \in Videos : s.cleanupMap[v] # NoNode})
  ELSE s

\* ------------------------------------------------------ geometry selector
\* Lengths are CSS pixels.  A box is what getBoundingClientRect() returns.

\* window.innerWidth, window.innerHeight
InnerWidth == 400
InnerHeight == 800

Box(t, l, w, h) == [top |-> t, left |-> l, width |-> w, height |-> h]

\* boxes the page gives its videos: filling the viewport, far below it, half
\* above it, off to the right, display: none, and two small players on either
\* side of the 100 pixel limit
Boxes ==
  { Box(0, 0, 400, 700), Box(2000, 0, 400, 700), Box(-350, 0, 400, 700),
    Box(0, 900, 400, 700), Box(0, 0, 0, 0), Box(0, 0, 100, 100),
    Box(0, 0, 101, 101) }

\* the viewport of the page the feed is shown in
Screen == [width |-> InnerWidth, height |-> InnerHeight]

\* rect.bottom and rect.right of a box with non-negative sides
Bottom(r) == r.top + r.height
Right(r) == r.left + r.width

\* a standard intersection test that wants the box to overlap the viewport,
\* not merely touch it
InViewportStrict(r) ==
  /\ Bottom(r) > 0
  /\ Right(r) > 0
  /\ r.top < inner.height
  /\ r.left < inner.width

\* the near-viewport test
InViewport(r) ==
  /\ r.top >= -r.height
  /\ r.left >= -r.width
  /\ Bottom(r) <= inner.height + r.height
  /\ Right(r) <= inner.width + r.width

Qualifies(r) == InViewport(r) /\ r.width > 100 /\ r.height > 100

Area(r) == r.width * r.height

\* the for loop over the videos: the index of the first that qualifies, or 0
RECURSIVE FirstQualifying(_, _)
FirstQualifying(rects, i) ==
  IF i > Len(rects) THEN 0
  ELSE IF Qualifies(rects[i]) THEN i
  ELSE FirstQualifying(rects, i + 1)

\* videos.reduce(..., videos[0]): a later video wins only with a greater area
RECURSIVE Largest(_, _, _)
Largest(rects, i, largest) ==
  IF i > Len(rects) THEN largest
  ELSE Largest(rects, i + 1,
               IF Area(rects[i]) > Area(rects[largest]) THEN i ELSE largest)

\* a selector that always falls back to the largest video
PickLargest(rects) ==
  IF Len(rects) = 0 THEN 0
  ELSE IF Len(rects) = 1 THEN 1
  ELSE Largest(rects, 1, 1)

\* getActiveVideo over the boxes of the document's videos, in document order:
\* the index of the chosen video, 0 for null
PickActive(rects) ==
  IF Len(rects) = 0 THEN 0
  ELSE IF Len(rects) = 1 THEN 1
  ELSE IF FirstQualifying(rects, 1) # 0 THEN FirstQualifying(rects, 1)
  ELSE Largest(rects, 1, 1)

getActiveVideo(ch) ==
  LET vs == QueryVideos(ch, Body)
      i == PickActive([k \in 1..Len(vs) |-> rect[vs[k]]])
  IN  IF i = 0 THEN NoNode ELSE vs[i]

\* ------------------------------------------------------ command dispatcher
\* Rates are hundredths (125 is 1.25x), volumes are tenths (10 is 1.0), times
\* are whole seconds.  The metadata of every video is loaded, so its duration
\* is a number.

PLAYBACK_SPEEDS == <<25, 50, 75, 100, 125, 150, 175, 200>>

\* the default arguments: seconds = 5, amount = 0.1
DefaultSeconds == 5
DefaultAmount == 1

\* PLAYBACK_SPEEDS.indexOf(x), counted from 1: 0 stands for JavaScript's -1
IndexOf(x) ==
  IF \E i \in 1..Len(PLAYBACK_SPEEDS) : PLAYBACK_SPEEDS[i] = x
  THEN CHOOSE i \in 1..Len(PLAYBACK_SPEEDS) : PLAYBACK_SPEEDS[i] = x
  ELSE 0

\* what a command hands back: the media attributes after it, its return value
\* ("threw" when an exception leaves it) and the assignments it made
Done(md, result, wrote) == [media |-> md, result |-> result, wrote |-> wrote]

\* a command that reports success although it found no video
NoVideoSucceeds(md) == Done(md, "true", <<>>)

\* `if (!video) return false`
NoVideo(md) == Done(md, "false", <<>>)

togglePlayPause(md) ==
  LET video == getActiveVideo(children)
  IN  IF video = NoNode THEN NoVideo(md)
      ELSE Done([md EXCEPT ![video].paused = ~@], "true",
                << <<video, "paused", IF md[video].paused THEN 0 ELSE 1>> >>)

\* the currentTime setter seeks, and a seek lands inside the media
SetCurrentTime(md, video, t) ==
  [md EXCEPT ![video].currentTime =
     IF IsNaN(md[video].duration) THEN Max(0, t)
     ELSE Max(0, Min(md[video].duration, t))]

seekBackward(md, seconds) ==
  LET video == getActiveVideo(children)
  IN  IF video = NoNode THEN NoVideo(md)
      ELSE LET t == Max(0, md[video].currentTime - seconds)
           IN  Done(SetCurrentTime(md, video, t), "true",
                    << <<video, "currentTime", t>> >>)

seekForward(md, seconds) ==
  LET video == getActiveVideo(children)
  IN  IF video = NoNode THEN NoVideo(md)
      ELSE LET target == md[video].currentTime + seconds
               limit == IF md[video].duration # 0 /\ ~IsNaN(md[video].duration)
                        THEN md[video].duration
                        ELSE target
               t == Min(limit, target)
           IN  Done(SetCurrentTime(md, video, t), "true",
                    << <<video, "currentTime", t>> >>)

\* the volume setter throws an IndexSizeError outside [0, 1]
SetVolume(md, video, x) ==
  IF x < 0 \/ x > 10
  THEN Done(md, "threw", << <<video, "volume", x>> >>)
  ELSE Done([md EXCEPT ![video].volume = x], "true",
            << <<video, "volume", x>> >>)

increaseVolume(md, amount) ==
  LET video == getActiveVideo(children)
  IN  IF video = NoNode THEN NoVideo(md)
      ELSE SetVolume(md, video, Min(10, md[video].volume + amount))

decreaseVolume(md, amount) ==
  LET video == getActiveVideo(children)
  IN  IF video = NoNode THEN NoVideo(md)
      ELSE SetVolume(md, video, Max(0, md[video].volume - amount))

\* video.playbackRate || 1
CurrentSpeed(md, video) ==
  IF md[video].playbackRate = 0 THEN 100 ELSE md[video].playbackRate

SetRate(md, video, r) ==
  Done([md EXCEPT ![video].playbackRate = r], "true",
       << <<video, "playbackRate", r>> >>)

\* increaseSpeed that goes round to the first entry after the last
increaseSpeedWraps(md) ==
  LET video == getActiveVideo(children)
  IN  IF video = NoNode THEN NoVideo(md)
      ELSE LET currentIndex == IndexOf(CurrentSpeed(md, video))
           IN  SetRate(md, video,
                 PLAYBACK_SPEEDS[(currentIndex % Len(PLAYBACK_SPEEDS)) + 1])

increaseSpeed(md) ==
  LET video == getActiveVideo(children)
  IN  IF video = NoNode THEN NoVideo(md)
      ELSE LET currentIndex == IndexOf(CurrentSpeed(md, video))
               nextIndex == Min(currentIndex + 1, Len(PLAYBACK_SPEEDS))
           IN  SetRate(md, video, PLAYBACK_SPEEDS[nextIndex])

decreaseSpeed(md) ==
  LET video == getActiveVideo(children)
  IN  IF video = NoNode THEN NoVideo(md)
      ELSE LET currentIndex == IndexOf(CurrentSpeed(md, video))
               prevIndex == Max(currentIndex - 1, 1)
           IN  SetRate(md, video, PLAYBACK_SPEEDS[prevIndex])

resetSpeed(md) ==
  LET video == getActiveVideo(children)
  IN  IF video = NoNode THEN NoVideo(md)
      ELSE SetRate(md, video, 100)

\* the functions of the command table and of the debug interface
Handlers ==
  {"togglePlayPause", "seekBackward", "seekForward", "increaseVolume",
   "decreaseVolume", "increaseSpeed", "decreaseSpeed", "resetSpeed"}

Seeks == {"seekBackward", "seekForward"}
Volumes == {"increaseVolume", "decreaseVolume"}

\* handler(arg)
Call(md, h, arg) ==
  CASE h = "togglePlayPause" -> togglePlayPause(md)
    [] h = "seekBackward" -> seekBackward(md, arg)
    [] h = "seekForward" -> seekForward(md, arg)
    [] h = "increaseVolume" -> increaseVolume(md, arg)
    [] h = "decreaseVolume" -> decreaseVolume(md, arg)
    [] h = "increaseSpeed" -> increaseSpeed(md)
    [] h = "decreaseSpeed" -> decreaseSpeed(md)
    [] h = "resetSpeed" -> resetSpeed(md)

\* handler(): the parameter takes its default
DefaultArg(h) == IF h \in Seeks THEN DefaultSeconds ELSE DefaultAmount

commandHandlers ==
  [c \in {"play-pause", "seek-backward", "seek-forward", "speed-toggle",
          "volume-down", "volume-up", "speed-down", "speed-up", "speed-reset"} |->
     CASE c = "play-pause" -> "togglePlayPause"
       [] c = "seek-backward" -> "seekBackward"
       [] c = "seek-forward" -> "seekForward"
       [] c = "speed-toggle" -> "increaseSpeed"
       [] c = "volume-down" -> "decreaseVolume"
       [] c = "volume-up" -> "increaseVolume"
       [] c = "speed-down" -> "decreaseSpeed"
       [] c = "speed-up" -> "increaseSpeed"
       [] c = "speed-reset" -> "resetSpeed"]

\* commandHandlers is an object literal, so commandHandlers[name] also finds
\* what Object.prototype holds.  Called with no receiver: Object() gives a new
\* object, toString() the string "[object Undefined]", hasOwnProperty() throws
\* a TypeError, and __proto__ is an object that cannot be called.
Inherited ==
  [n \in {"constructor", "toString", "hasOwnProperty", "__proto__"} |->
     CASE n = "constructor" -> "object"
       [] n = "toString" -> "string"
       [] n = "hasOwnProperty" -> "threw"
       [] n = "__proto__" -> "threw"]

\* what the listener did: the response it sent (none when empty), whether an
\* exception left it, and the command function it ran (none when "")
Reply(md, response, outcome, ran) ==
  [media |-> md, response |-> response, outcome |-> outcome, ran |-> ran]

Response(success, error) == <<[success |-> success, error |-> error]>>

\* the chrome.runtime.onMessage listener
onMessage(md, message) ==
  IF message.action # "command" \/ message.command = ""
  THEN Reply(md, <<>>, "returned", "")
  ELSE IF message.command \in DOMAIN commandHandlers
  THEN LET h == commandHandlers[message.command]
           r == Call(md, h, DefaultArg(h))
       IN  IF r.result = "threw" THEN Reply(r.media, <<>>, "threw", h)
           ELSE Reply(r.media, Response(r.result, ""), "returned", h)
  ELSE IF message.command \in DOMAIN Inherited
  THEN IF Inherited[message.command] = "threw"
       THEN Reply(md, <<>>, "threw", "")
       ELSE Reply(md, Response(Inherited[message.command], ""), "returned", "")
  ELSE Reply(md, Response("false", "Unknown command"), "returned", "")

\* ------------------------------------------------------------------- state

\* the history variable `mounted` after a step that made the calls `log`
MountedAfter(old, s, log) ==
  {v \in Videos :
     /\ v \in s.enhanced \/ s.cleanupMap[v] # NoNode
     /\ \/ Connected(s.children, v)
        \/ /\ v \in old
           /\ \A i \in 1..Len(log) : log[i] # <<"cleanupVideo", v, "torn-down">>}

NoCall == [op |-> "init", arg |-> NoNode, calls |-> <<>>, result |-> <<>>]

\* an element that leaves the document loses the focus
StillFocused(ch) ==
  IF focus # NoNode /\ Connected(ch, focus) THEN focus ELSE NoNode

InstallTracker(s, op, arg, result) ==
  /\ children' = s.children
  /\ enhanced' = s.enhanced
  /\ cleanupMap' = s.cleanupMap
  /\ owner' = s.owner
  /\ attachedAt' = s.attachedAt
  /\ vListeners' = s.vListeners
  /\ cListeners' = s.cListeners
  /\ lastOp' = [op |-> op, arg |-> arg, calls |-> s.calls, result |-> result]
  /\ mounted' = MountedAfter(mounted, s, s.calls)
  /\ sliders' = s.sliders
  /\ focus' = StillFocused(s.children)

Install(s, op, arg, result) ==
  /\ InstallTracker(s, op, arg, result)
  /\ UNCHANGED others

\* the data-custom-id attributes the page gives its videos: none at all, or
\* one video tagged
PageIds ==
  { [v \in Videos |-> NoId],
    [v \in Videos |-> IF v = <<"video", 2>> THEN "a" ELSE NoId] }

EmptyDoc == [p \in Parents |-> <<>>]

\* a feed of two reels inside one positioned wrapper
FeedDoc ==
  [EmptyDoc EXCEPT ![Body] = << <<"div", 1>> >>,
                   ![<<"div", 1>>] = << <<"video", 1>>, <<"video", 2>> >>]

\* documents the script can be loaded into
InitialDocs ==
  { EmptyDoc,
    [EmptyDoc EXCEPT ![Body] = << <<"video", 1>> >>],
    FeedDoc,
    [EmptyDoc EXCEPT ![Body] = << <<"div", 1>>, <<"video", 2>> >>,
                     ![<<"div", 1>>] = << <<"video", 1>> >>] }

Fresh(doc) ==
  [children |-> doc, enhanced |-> {},
   cleanupMap |-> [v \in Videos |-> NoNode],
   owner |-> [c \in Containers |-> NoNode],
   attachedAt |-> [c \in Containers |-> NoNode],
   vListeners |-> {}, cListeners |-> {},
   sliders |-> [c \in Containers |-> Blank], calls |-> <<>>]

\* a paused video at its start, at full volume and normal speed
Media(d, r) ==
  [paused |-> TRUE, currentTime |-> 0, duration |-> d, volume |-> 10,
   playbackRate |-> r]

\* the players of the page: video 1 is six seconds long and video 2 has no
\* length (duration 0)
Players ==
  [v \in Videos |-> IF v = <<"video", 1>> THEN Media(6, 100) ELSE Media(0, 100)]

\* the rates the page starts the reel on screen at: 1x, 0 and 3x
PageRates == {100, 0, 300}

\* both videos fill the viewport
Stacked == [v \in Videos |-> Box(0, 0, 400, 700)]

\* the layouts of a reel feed: both videos on screen, or video 1 scrolled away
Layouts == {Stacked, [Stacked EXCEPT ![<<"video", 1>>] = Box(2000, 0, 400, 700)]}

\* the reel a layout shows
OnScreen(layout) ==
  IF Qualifies(layout[<<"video", 1>>]) THEN <<"video", 1>> ELSE <<"video", 2>>

\* what the environment can withhold while the script loads: the DOM query,
\* the MutationObserver constructor, document.body
Faults == {"query", "observer", "body"}

\* the script has run to its end in an environment that withholds nothing
Booted ==
  [env |-> {}, pc |-> "done", observing |-> TRUE, listening |-> TRUE,
   debug |-> TRUE, escaped |-> FALSE]

\* the script runs once in the page
Alone ==
  [on |-> FALSE, enhanced |-> {}, cleanupMap |-> [v \in Videos |-> NoNode],
   records |-> <<>>]

\* nothing throws, and the players are left alone
Quiet ==
  /\ boot = Booted
  /\ second = Alone
  /\ faulty = {}
  /\ faultAt = "layout"
  /\ inner = Screen
  /\ media = [v \in Videos |-> Media(6, 100)]
  /\ rect = Stacked
  /\ probe = <<>>

\* script load: the trackers are empty, then the initial pass enhances the
\* videos already in the document, and the observer starts with no records
Loaded(docs) ==
  /\ \E doc \in docs :
       LET s == EnhanceDocument(Fresh(doc))
       IN  /\ children = s.children
           /\ enhanced = s.enhanced
           /\ cleanupMap = s.cleanupMap
           /\ owner = s.owner
           /\ attachedAt = s.attachedAt
           /\ vListeners = s.vListeners
           /\ cListeners = s.cListeners
           /\ lastOp = [op |-> "init", arg |-> NoNode, calls |-> s.calls,
                        result |-> <<>>]
           /\ mounted = MountedAfter({}, s, s.calls)
           /\ sliders = s.sliders
  /\ focus = NoNode
  /\ records = <<>>
  /\ transient = {}

Init ==
  /\ customId \in PageIds
  /\ Quiet
  /\ Loaded(InitialDocs)

\* the same page with videos on which createControls throws
InitFaults ==
  /\ customId \in PageIds
  /\ faulty \in SUBSET Videos
  /\ faultAt = "layout"
  /\ inner = Screen
  /\ boot = Booted
  /\ second = Alone
  /\ media = [v \in Videos |-> Media(6, 100)]
  /\ rect = Stacked
  /\ probe = <<>>
  /\ Loaded(InitialDocs)

\* a page without videos or with a feed, in either layout and at any rate
InitPlayer ==
  /\ customId = [v \in Videos |-> NoId]
  /\ faulty = {}
  /\ faultAt = "layout"
  /\ inner = Screen
  /\ boot = Booted
  /\ second = Alone
  /\ rect \in Layouts
  /\ \E r \in PageRates :
       media = [Players EXCEPT ![OnScreen(rect)].playbackRate = r]
  /\ probe = <<>>
  /\ Loaded({EmptyDoc, FeedDoc})

\* a document of up to MaxProbe videos, each with any of the boxes
InitSelector ==
  /\ customId = [v \in Videos |-> NoId]
  /\ faulty = {}
  /\ faultAt = "layout"
  /\ inner = Screen
  /\ boot = Booted
  /\ second = Alone
  /\ media = [v \in Videos |-> Media(6, 100)]
  /\ rect = Stacked
  /\ probe \in UNION {[1..n -> Boxes] : n \in 0..MaxProbe}
  /\ Loaded({EmptyDoc})

\* a feed whose first reel is scrolled away, so that the commands act on the
\* second one
InitFrame ==
  /\ customId = [v \in Videos |-> NoId]
  /\ faulty = {}
  /\ faultAt = "layout"
  /\ inner = Screen
  /\ boot = Booted
  /\ second = Alone
  /\ media = Players
  /\ rect = [Stacked EXCEPT ![<<"video", 1>>] = Box(2000, 0, 400, 700)]
  /\ probe = <<>>
  /\ Loaded({FeedDoc})

\* documents with at most the second reel
TwoDocs ==
  { EmptyDoc,
    [EmptyDoc EXCEPT ![Body] = << <<"video", 2>> >>],
    [EmptyDoc EXCEPT ![Body] = << <<"div", 1>> >>,
                     ![<<"div", 1>>] = << <<"video", 2>> >>] }

\* a page in which the script runs twice, as extension and as userscript:
\* the second copy makes its own initial pass over what the first left
InitTwo ==
  /\ customId \in PageIds
  /\ faulty = {}
  /\ faultAt = "layout"
  /\ inner = Screen
  /\ boot = Booted
  /\ media = [v \in Videos |-> Media(6, 100)]
  /\ rect = Stacked
  /\ probe = <<>>
  /\ \E doc \in TwoDocs :
       LET s == EnhanceDocument(Fresh(doc))
           t == EnhanceDocument([s EXCEPT !.enhanced = {},
                                          !.cleanupMap = [v \in Videos |-> NoNode],
                                          !.calls = <<>>])
       IN  /\ children = t.children
           /\ enhanced = s.enhanced
           /\ cleanupMap = s.cleanupMap
           /\ owner = t.owner
           /\ attachedAt = t.attachedAt
           /\ vListeners = t.vListeners
           /\ cListeners = t.cListeners
           /\ sliders = t.sliders
           /\ second = [on |-> TRUE, enhanced |-> t.enhanced,
                        cleanupMap |-> t.cleanupMap, records |-> <<>>]
           /\ lastOp = [op |-> "init", arg |-> NoNode, calls |-> s.calls \o t.calls,
                        result |-> <<>>]
           /\ mounted = MountedAfter({}, s, s.calls)
  /\ focus = NoNode
  /\ records = <<>>
  /\ transient = {}

\* a page with no reel yet or one reel in the body, on which createControls
\* throws at one of its statements until the environment lets it through
InitAttach ==
  /\ customId \in PageIds
  /\ faulty = {<<"video", 2>>}
  /\ faultAt \in FaultSteps
  /\ inner = Screen
  /\ boot = Booted
  /\ second = Alone
  /\ media = [v \in Videos |-> Media(6, 100)]
  /\ rect = Stacked
  /\ probe = <<>>
  /\ Loaded({EmptyDoc, [EmptyDoc EXCEPT ![Body] = << <<"video", 2>> >>]})

\* every box on a small grid of layout units, and every viewport on it
GridBoxes ==
  { Box(t, l, w, h) : t \in -MaxOffset..MaxOffset, l \in -MaxOffset..MaxOffset,
                      w \in 0..MaxEdge, h \in 0..MaxEdge }
Viewports == [width : 0..MaxEdge, height : 0..MaxEdge]

\* a page of two videos, the first with any box, in any viewport
InitViewport ==
  /\ customId = [v \in Videos |-> NoId]
  /\ faulty = {}
  /\ faultAt = "layout"
  /\ inner \in Viewports
  /\ boot = Booted
  /\ second = Alone
  /\ media = [v \in Videos |-> Media(6, 100)]
  /\ rect = Stacked
  /\ \E r \in GridBoxes : probe = <<r, Box(0, 0, 0, 0)>>
  /\ Loaded({EmptyDoc})

\* one reel directly in the body
SingleDoc == [EmptyDoc EXCEPT ![Body] = << <<"video", 1>> >>]

\* the lengths a reel turns out to have once its metadata is there
ScrubDurations == {0, 2, MaxTime}

\* a page with one reel, its metadata loaded or not, enhanced at load
InitScrub ==
  /\ customId = [v \in Videos |-> NoId]
  /\ faulty = {}
  /\ faultAt = "layout"
  /\ inner = Screen
  /\ boot = Booted
  /\ second = Alone
  /\ \E d \in ScrubDurations \cup {NaN} : media = [v \in Videos |-> Media(d, 100)]
  /\ rect = Stacked
  /\ probe = <<>>
  /\ Loaded({SingleDoc})

\* the script is about to run its first statement in a document
InitStartup ==
  /\ customId \in PageIds
  /\ faulty = {}
  /\ faultAt = "layout"
  /\ inner = Screen
  /\ media = [v \in Videos |-> Media(6, 100)]
  /\ rect = Stacked
  /\ probe = <<>>
  /\ \E e \in SUBSET Faults :
       boot = [env |-> e, pc |-> "pass", observing |-> FALSE,
               listening |-> FALSE, debug |-> FALSE, escaped |-> FALSE]
  /\ \E doc \in InitialDocs :
       \* a document without a body has no videos in it
       /\ "body" \in boot.env => doc = EmptyDoc
       /\ children = doc
  /\ enhanced = {}
  /\ cleanupMap = [v \in Videos |-> NoNode]
  /\ owner = [c \in Containers |-> NoNode]
  /\ attachedAt = [c \in Containers |-> NoNode]
  /\ vListeners = {}
  /\ cListeners = {}
  /\ lastOp = [NoCall EXCEPT !.op = "load"]
  /\ mounted = {}
  /\ sliders = [c \in Containers |-> Blank]
  /\ focus = NoNode
  /\ second = Alone
  /\ records = <<>>
  /\ transient = {}

\* ---------------------------------------------------------- the page's DOM

\* a mutation of target's child list reaches the observer when the body or a
\* node with a transient registered observer is an inclusive ancestor
Observed(ch, tr, target) ==
  \E a \in InclusiveAncestors(ch, target) : a = Body \/ a \in tr

\* Removed nodes get a transient registered observer.  Only one on a node that
\* has a child list and is outside the document can make a later mutation
\* observed, so only those are kept.
Transients(ch, tr) == {n \in tr : n \in Parents /\ ~Connected(ch, n)}

PageDone == [op |-> "page", arg |-> NoNode, calls |-> <<>>, result |-> <<>>]

\* The observers of both copies of the script are notified at the same
\* microtask checkpoint, so the page makes its next change only when both
\* callbacks have run or neither has; both queues then hold the same records.
InStep == second.on => second.records = records

\* the second copy's queue after a change that left `rs` in the first's
Twin(rs) == IF second.on THEN [second EXCEPT !.records = rs] ELSE second

\* p.appendChild(n) of a node that has no parent
PageAppend(n, p) ==
  /\ InStep
  /\ Len(records) < MaxRecords
  /\ ParentOf(children, n) = NoNode
  /\ n \notin InclusiveAncestors(children, p)
  /\ children' = [children EXCEPT ![p] = Append(@, n)]
  /\ records' = IF Observed(children, transient, p)
                THEN Append(records, [added |-> <<n>>, removed |-> <<>>])
                ELSE records
  /\ transient' = Transients(children', transient)
  /\ lastOp' = PageDone
  /\ mounted' = MountedAfter(mounted, [Cur EXCEPT !.children = children'], <<>>)
  /\ focus' = StillFocused(children')
  /\ second' = Twin(records')
  /\ UNCHANGED <<customId, enhanced, cleanupMap, owner, attachedAt,
                 vListeners, cListeners, sliders, faulty, faultAt, media, rect, inner, probe,
                 boot>>

\* n.remove()
PageRemove(n) ==
  LET p == ParentOf(children, n)
  IN  /\ InStep
      /\ Len(records) < MaxRecords
      /\ p # NoNode
      /\ children' = [children EXCEPT ![p] = RemoveFrom(@, n)]
      /\ IF Observed(children, transient, p)
         THEN /\ records' = Append(records, [added |-> <<>>, removed |-> <<n>>])
              /\ transient' = Transients(children', transient \cup {n})
         ELSE UNCHANGED <<records, transient>>
      /\ lastOp' = PageDone
      /\ mounted' = MountedAfter(mounted, [Cur EXCEPT !.children = children'],
                              <<>>)
      /\ focus' = StillFocused(children')
      /\ second' = Twin(records')
      /\ UNCHANGED <<customId, enhanced, cleanupMap, owner, attachedAt,
                     vListeners, cListeners, sliders, faulty, faultAt, media, rect, inner,
                     probe, boot>>

\* p.replaceChildren(n) for a child n of p: every child is removed, n is
\* inserted again, and one record lists both
PageReplaceChildren(p, n) ==
  /\ InStep
  /\ Len(records) < MaxRecords
  /\ n \in Range(children[p])
  /\ children' = [children EXCEPT ![p] = <<n>>]
  /\ IF Observed(children, transient, p)
     THEN /\ records' = Append(records, [added |-> <<n>>, removed |-> children[p]])
          /\ transient' = Transients(children', transient \cup Range(children[p]))
     ELSE UNCHANGED <<records, transient>>
  /\ lastOp' = PageDone
  /\ mounted' = MountedAfter(mounted, [Cur EXCEPT !.children = children'], <<>>)
  /\ focus' = StillFocused(children')
  /\ second' = Twin(records')
  /\ UNCHANGED <<customId, enhanced, cleanupMap, owner, attachedAt,
                 vListeners, cListeners, sliders, faulty, faultAt, media, rect, inner, probe,
                 boot>>

\* ---------------------------------------------------------------- handlers
\* Everything runs on the one UI thread.  The records a task's DOM changes
\* queue are delivered at the microtask checkpoint that ends the task, so a
\* handler started by another task (a media event, a console call) finds the
\* queue empty.

\* the MutationObserver callback takes every queued record
ObserverCallback ==
  /\ records # <<>>
  /\ Install(ProcessMutations(Cur, records), "observer", NoNode, <<>>)
  /\ records' = <<>>
  /\ transient' = {}
  /\ UNCHANGED customId

\* the tracker of the second copy of the script, over the same document
Other == [Cur EXCEPT !.enhanced = second.enhanced,
                     !.cleanupMap = second.cleanupMap]

\* the MutationObserver callback of the second copy takes every queued record
ObserverCallback2 ==
  /\ second.on
  /\ second.records # <<>>
  /\ LET s == ProcessMutations(Other, second.records)
     IN  /\ children' = s.children
         /\ owner' = s.owner
         /\ attachedAt' = s.attachedAt
         /\ vListeners' = s.vListeners
         /\ cListeners' = s.cListeners
         /\ sliders' = s.sliders
         /\ focus' = StillFocused(s.children)
         /\ second' = [second EXCEPT !.enhanced = s.enhanced,
                                     !.cleanupMap = s.cleanupMap,
                                     !.records = <<>>]
         /\ lastOp' = [op |-> "observer2", arg |-> NoNode, calls |-> s.calls,
                       result |-> <<>>]
         /\ mounted' = MountedAfter(mounted, [Cur EXCEPT !.children = s.children],
                                    <<>>)
  /\ UNCHANGED <<enhanced, cleanupMap, records, transient, customId, faulty, faultAt,
                 media, rect, inner, probe, boot>>

\* __instaScrubber.enhanceAll()
EnhanceAll ==
  /\ records = <<>>
  /\ Install(enhanceAll(Cur), "enhanceAll", NoNode,
             IF Threw(enhanceAll(Cur)) THEN <<"threw">> ELSE <<>>)
  /\ UNCHANGED <<customId, records, transient>>

\* __instaScrubber.enhancedCount()
EnhancedCount ==
  /\ records = <<>>
  /\ Install(Cur, "enhancedCount", NoNode, <<enhancedCount(Cur)>>)
  /\ UNCHANGED <<customId, records, transient>>

\* __instaScrubber.cleanupAll()
CleanupAll ==
  /\ records = <<>>
  /\ Install(cleanupAll(Cur), "cleanupAll", NoNode, <<>>)
  /\ UNCHANGED <<customId, records, transient>>

\* the sliders whose handler runs when event e fires on video v
Rendered(s, v, e) == {l[3] : l \in {x \in s.vListeners : x[1] = v /\ x[2] = e}}

\* a media event whose listener tears the video down
VideoEventDetaches(v, e) ==
  /\ records = <<>>
  /\ Install(cleanupVideo(Cur, v), e, v, <<Rendered(Cur, v, e)>>)
  /\ UNCHANGED <<customId, records, transient>>

\* the listener createControls registered for event e
Listener(e, sls, md, video, slider, active) ==
  CASE e = "timeupdate" -> onTimeUpdate(sls, md, video, slider, active)
    [] e = "loadedmetadata" -> onLoadedMetadata(sls, md, video, slider, active)
    [] e = "seeked" -> onSeeked(sls, md, video, slider, active)

\* event e fires on video v: the listeners of every container bound to it run
RECURSIVE Dispatch(_, _, _, _, _)
Dispatch(sls, md, v, e, cs) ==
  IF cs = {} THEN sls
  ELSE LET c == CHOOSE x \in cs : TRUE
       IN  Dispatch(Listener(e, sls, md, v, c, focus), md, v, e, cs \ {c})

\* the media element fires timeupdate / loadedmetadata / seeked
VideoEvent(v, e) ==
  /\ records = <<>>
  /\ Install([Cur EXCEPT !.sliders = Dispatch(@, media, v, e, Rendered(Cur, v, e))],
             e, v, <<Rendered(Cur, v, e)>>)
  /\ UNCHANGED <<customId, records, transient>>

\* slider.value as parseFloat reads it: the value of a range input is always
\* the decimal string of a number
parseFloat(x) == x

\* an input listener without the try around the assignment
onSliderInputUncaught(sls, md, video, slider, active, rejects) ==
  LET t == parseFloat(sls[slider].value)
  IN  IF IsNaN(t) THEN [media |-> md, sliders |-> sls, outcome |-> "returned"]
      ELSE IF rejects THEN [media |-> md, sliders |-> sls, outcome |-> "threw"]
      ELSE LET after == SetCurrentTime(md, video, t)
           IN  [media |-> after,
                sliders |-> updateProgress(sls, after, video, slider, active),
                outcome |-> "returned"]

\* the input listener of a slider; `rejects` says whether the media engine
\* throws on the assignment to currentTime
onSliderInput(sls, md, video, slider, active, rejects) ==
  LET t == parseFloat(sls[slider].value)
  IN  IF IsNaN(t) THEN [media |-> md, sliders |-> sls, outcome |-> "returned"]
      ELSE IF rejects THEN [media |-> md, sliders |-> sls, outcome |-> "caught"]
      ELSE LET after == SetCurrentTime(md, video, t)
           IN  [media |-> after,
                sliders |-> updateProgress(sls, after, video, slider, active),
                outcome |-> "returned"]

\* the user moves the thumb of slider c to x: the control takes the value and
\* fires input
SliderInput(c, x, rejects) ==
  /\ records = <<>>
  /\ Connected(children, c)
  /\ <<c, "slider", "input">> \in cListeners
  /\ x \in 0..Min(sliders[c].max, MaxTime)
  /\ x # sliders[c].value
  /\ LET r == onSliderInput([sliders EXCEPT ![c].value = x], media, owner[c],
                            c, focus, rejects)
     IN  /\ media' = r.media
         /\ sliders' = r.sliders
         /\ lastOp' = [op |-> "input", arg |-> c,
                       calls |-> << <<"onSliderInput", c, r.outcome>> >>,
                       result |-> <<>>]
  /\ UNCHANGED <<tracker, customId, faulty, faultAt, rect, inner, probe, boot, focus, second>>

\* the user or the page moves the focus to slider c
Focus(c) ==
  /\ Connected(children, c)
  /\ focus # c
  /\ focus' = c
  /\ lastOp' = [op |-> "focus", arg |-> c, calls |-> <<>>, result |-> <<>>]
  /\ UNCHANGED <<tracker, customId, sliders, others>>

\* the focus leaves the slider
Blur ==
  /\ focus # NoNode
  /\ focus' = NoNode
  /\ lastOp' = [op |-> "blur", arg |-> focus, calls |-> <<>>, result |-> <<>>]
  /\ UNCHANGED <<tracker, customId, sliders, others>>

\* the page gives video v another source: its metadata is gone and it is back
\* at the start
Emptied(v) ==
  /\ Connected(children, v)
  /\ ~IsNaN(media[v].duration)
  /\ media' = [media EXCEPT ![v].duration = NaN, ![v].currentTime = 0]
  /\ lastOp' = [op |-> "emptied", arg |-> v, calls |-> <<>>, result |-> <<>>]
  /\ UNCHANGED <<tracker, customId, faulty, faultAt, rect, inner, probe, boot, sliders, focus,
                 second>>

\* playback or a seek of the page moves video v to second t
PlayerMoves(v, t) ==
  /\ Connected(children, v)
  /\ ~IsNaN(media[v].duration)
  /\ t \in 0..media[v].duration
  /\ t # media[v].currentTime
  /\ media' = [media EXCEPT ![v].currentTime = t]
  /\ lastOp' = [op |-> "moves", arg |-> v, calls |-> <<>>, result |-> <<>>]
  /\ UNCHANGED <<tracker, customId, faulty, faultAt, rect, inner, probe, boot, sliders, focus,
                 second>>

\* the metadata of video v arrives: it has duration d, its position is inside
\* it, and loadedmetadata fires before any other event of the new source
MetadataLoads(v, d) ==
  /\ records = <<>>
  /\ Connected(children, v)
  /\ IsNaN(media[v].duration)
  /\ media' = [media EXCEPT ![v].duration = d,
                            ![v].currentTime = Min(@, d)]
  /\ InstallTracker(
       [Cur EXCEPT !.sliders = Dispatch(@, media', v, "loadedmetadata",
                                        Rendered(Cur, v, "loadedmetadata"))],
       "loadedmetadata", v, <<Rendered(Cur, v, "loadedmetadata")>>)
  /\ UNCHANGED <<customId, records, transient, faulty, faultAt, rect, inner, probe, boot,
                 second>>

\* createControls(n) called on its own
CallCreateControls(n) ==
  /\ records = <<>>
  /\ Install(createControls(Cur, n), "createControls", n, <<>>)
  /\ UNCHANGED <<customId, records, transient>>

\* the environment stops making createControls throw on video v
Recovers(v) ==
  /\ v \in faulty
  /\ faulty' = faulty \ {v}
  /\ lastOp' = [op |-> "recovers", arg |-> v, calls |-> <<>>, result |-> <<>>]
  /\ UNCHANGED <<tracker, customId, faultAt, media, rect, inner, probe, boot, sliders,
                 focus, second>>

\* cleanupVideo(n) called on its own
CallCleanupVideo(n) ==
  /\ records = <<>>
  /\ Install(cleanupVideo(Cur, n), "cleanupVideo", n, <<>>)
  /\ UNCHANGED <<customId, records, transient>>

\* ----------------------------------------------------------------- start-up
\* The top-level statements of the script, in source order.  A statement
\* outside any try that throws ends the script: nothing after it runs.

Escaped == [boot EXCEPT !.pc = "aborted", !.escaped = TRUE]

\* try { document.querySelectorAll('video').forEach(...) } catch (e) {}
InitialPass ==
  /\ boot.pc = "pass"
  /\ LET s == IF "query" \in boot.env THEN Cur ELSE EnhanceDocument(Cur)
     IN  /\ children' = s.children
         /\ enhanced' = s.enhanced
         /\ cleanupMap' = s.cleanupMap
         /\ owner' = s.owner
         /\ attachedAt' = s.attachedAt
         /\ vListeners' = s.vListeners
         /\ cListeners' = s.cListeners
         /\ lastOp' = [op |-> "init", arg |-> NoNode, calls |-> s.calls,
                       result |-> <<>>]
         /\ mounted' = MountedAfter({}, s, s.calls)
         /\ sliders' = s.sliders
  /\ boot' = [boot EXCEPT !.pc = "observer"]
  /\ UNCHANGED <<customId, records, transient, faulty, faultAt, media, rect, inner, probe,
                 focus, second>>

StartupStep(b, op) ==
  /\ boot' = b
  /\ lastOp' = [op |-> op, arg |-> NoNode, calls |-> <<>>, result |-> <<>>]
  /\ UNCHANGED <<tracker, customId, faulty, faultAt, media, rect, inner, probe, sliders, focus,
                 second>>

\* const observer = new MutationObserver(...)
CreateObserver ==
  /\ boot.pc = "observer"
  /\ StartupStep(IF "observer" \in boot.env THEN Escaped
                 ELSE [boot EXCEPT !.pc = "observe"], "new MutationObserver")

\* observer.observe(document.body, { childList: true, subtree: true })
Observe ==
  /\ boot.pc = "observe"
  /\ StartupStep(IF "body" \in boot.env THEN Escaped
                 ELSE [boot EXCEPT !.pc = "listener", !.observing = TRUE],
                 "observe")

\* chrome.runtime.onMessage.addListener(...)
AddListener ==
  /\ boot.pc = "listener"
  /\ StartupStep([boot EXCEPT !.pc = "debug", !.listening = TRUE],
                 "addListener")

\* try { Object.defineProperty(window, '__instaScrubber', ...) } catch (e) {}
ExposeDebug ==
  /\ boot.pc = "debug"
  /\ StartupStep([boot EXCEPT !.pc = "done", !.debug = TRUE], "defineProperty")

NextStartup ==
  \/ InitialPass
  \/ CreateObserver
  \/ Observe
  \/ AddListener
  \/ ExposeDebug

\* -------------------------------------------------------------- behaviours

\* the page moves one of the nodes ns
PageStepOn(ns) ==
  \/ \E n \in ns, p \in Parents : PageAppend(n, p)
  \/ \E n \in ns : PageRemove(n)
  \/ \E p \in Parents, n \in ns : PageReplaceChildren(p, n)

PageStep == PageStepOn(PageNodes)

\* the script as it runs in a page
NextWatcher ==
  \/ PageStep
  \/ ObserverCallback
  \/ EnhanceAll
  \/ EnhancedCount
  \/ CleanupAll
  \/ \E v \in Videos, e \in VideoEvents : VideoEvent(v, e)

SpecWatcher == Init /\ [][NextWatcher]_vars

\* the same, with createControls and cleanupVideo also called directly
Next ==
  \/ NextWatcher
  \/ \E n \in PageNodes : CallCreateControls(n)
  \/ \E n \in PageNodes : CallCleanupVideo(n)

Spec == Init /\ [][Next]_vars

\* the script in a page some of whose videos make createControls throw
SpecFaults == InitFaults /\ [][NextWatcher]_vars

\* a call of the debug interface: window.__instaScrubber[h](arg)
DebugCommand(h, arg) ==
  LET r == Call(media, h, arg)
  IN  /\ media' = r.media
      /\ lastOp' = [op |-> "debug", arg |-> getActiveVideo(children),
                    calls |-> <<>>, result |-> <<h, r.result>>]
      /\ UNCHANGED <<children, customId, enhanced, cleanupMap, owner,
                     attachedAt, vListeners, cListeners, records, transient,
                     mounted, faulty, faultAt, rect, inner, probe, boot, sliders, focus,
                     second>>

\* the arguments tried through the debug interface: the default, one larger
\* than any duration or volume, and a negative one
DebugArgs(h) ==
  IF h \in Seeks THEN {DefaultSeconds, 20, -5}
  ELSE IF h \in Volumes THEN {DefaultAmount, 15, -5}
  ELSE {0}

\* message.command of the messages tried: the nine commands, inherited
\* property names, a name nothing defines and the empty string
Commands ==
  DOMAIN commandHandlers \cup DOMAIN Inherited \cup {"fullscreen", ""}

\* a message from the background script (or any other sender) arrives
Message(command) ==
  LET r == onMessage(media, [action |-> "command", command |-> command])
  IN  /\ media' = r.media
      /\ lastOp' = [op |-> "message", arg |-> getActiveVideo(children),
                    calls |-> <<>>,
                    result |-> <<command, r.response, r.outcome>>]
      /\ UNCHANGED <<children, customId, enhanced, cleanupMap, owner,
                     attachedAt, vListeners, cListeners, records, transient,
                     mounted, faulty, faultAt, rect, inner, probe, boot, sliders, focus,
                     second>>

NextPlayer ==
  \/ \E h \in Handlers : \E arg \in DebugArgs(h) : DebugCommand(h, arg)
  \/ \E command \in Commands : Message(command)

SpecPlayer == InitPlayer /\ [][NextPlayer]_vars

\* __instaScrubber.getActiveVideo() in a document whose videos have the boxes
\* of `probe`
GetActiveVideo ==
  /\ lastOp' = [op |-> "getActiveVideo", arg |-> NoNode, calls |-> <<>>,
                result |-> <<PickActive(probe)>>]
  /\ UNCHANGED <<children, customId, enhanced, cleanupMap, owner, attachedAt,
                 vListeners, cListeners, records, transient, mounted, sliders,
                 focus, others>>

\* the loop of getActiveVideo computes isInViewport for the i-th video
IsInViewport(i) ==
  /\ Len(probe) >= 2
  /\ i \in 1..Len(probe)
  /\ lastOp' = [op |-> "isInViewport", arg |-> NoNode,
                calls |-> << <<"isInViewport", <<"video", i>>,
                               IF InViewport(probe[i]) THEN "near" ELSE "away">> >>,
                result |-> <<>>]
  /\ UNCHANGED <<children, customId, enhanced, cleanupMap, owner, attachedAt,
                 vListeners, cListeners, records, transient, mounted, sliders,
                 focus, others>>

NextSelector == GetActiveVideo

SpecSelector == InitSelector /\ [][NextSelector]_vars

\* a user scrubbing in a page with one reel
NextScrub ==
  \/ \E v \in Videos, e \in VideoEvents : VideoEvent(v, e)
  \/ \E v \in Videos, d \in ScrubDurations : MetadataLoads(v, d)
  \/ \E v \in Videos : Emptied(v)
  \/ \E v \in Videos, t \in 0..MaxTime : PlayerMoves(v, t)
  \/ \E c \in Containers : Focus(c)
  \/ Blur
  \/ \E c \in Containers, x \in 0..MaxTime, rejects \in BOOLEAN :
       SliderInput(c, x, rejects)

SpecScrub == InitScrub /\ [][NextScrub]_vars

\* __instaScrubber.getActiveVideo() in the document
ActiveVideo ==
  /\ lastOp' = [op |-> "activeVideo", arg |-> getActiveVideo(children),
                calls |-> <<>>, result |-> <<>>]
  /\ UNCHANGED <<tracker, customId, sliders, focus, others>>

\* every part of the script at work in one page: command messages, the
\* selector, media events, and attach and detach called on any node
NextFrame ==
  \/ \E command \in Commands : Message(command)
  \/ ActiveVideo
  \/ \E v \in Videos, e \in VideoEvents : VideoEvent(v, e)
  \/ \E n \in PageNodes : CallCreateControls(n)
  \/ \E n \in PageNodes : CallCleanupVideo(n)

SpecFrame == InitFrame /\ [][NextFrame]_vars

\* two copies of the script watching a page that moves one reel and its
\* wrapper
NextTwo ==
  \/ PageStepOn(PageNodes \ {<<"video", 1>>})
  \/ ObserverCallback
  \/ ObserverCallback2

SpecTwo == InitTwo /\ [][NextTwo]_vars

\* the script loading into a page
\* the calls of state s found an unused container element whenever they
\* needed one
Sufficient(s) == \A i \in 1..Len(s.calls) : s.calls[i][3] # "pool-exhausted"

\* the observer callback and a direct createControls call, while the page
\* has not used up the container elements of the model
SuppliedCallback ==
  /\ Sufficient(ProcessMutations(Cur, records))
  /\ ObserverCallback

SuppliedCreateControls(v) ==
  /\ Sufficient(createControls(Cur, v))
  /\ CallCreateControls(v)

\* a page that moves one reel and its wrapper while createControls throws on
\* the reel, with createControls and cleanupVideo also called directly
NextAttach ==
  \/ PageStepOn(PageNodes \ {<<"video", 1>>})
  \/ SuppliedCallback
  \/ \E v \in Videos : SuppliedCreateControls(v)
  \/ \E v \in Videos : CallCleanupVideo(v)
  \/ \E v \in Videos : Recovers(v)

SpecAttach == InitAttach /\ [][NextAttach]_vars

\* the near-viewport test applied to the boxes of a page's videos
NextViewport == \E i \in 1..MaxProbe : IsInViewport(i)

SpecViewport == InitViewport /\ [][NextViewport]_vars

SpecStartup == InitStartup /\ [][NextStartup]_vars

TypeOK ==
  /\ enhanced \subseteq Videos
  /\ \A v \in Videos : cleanupMap[v] \in Containers \cup {NoNode}
  /\ Len(records) <= MaxRecords
  /\ \A i \in 1..Len(lastOp.calls) : lastOp.calls[i][3] # "pool-exhausted"

\* ------------------------------------------------------------------ claims

\* the overlay containers made for video v that sit under some parent
OverlaysOf(s, v) ==
  {c \in Containers : s.owner[c] = v /\ ParentOf(s.children, c) # NoNode}

\* the overlay containers made for video v that are in the document
OverlaysInDocument(s, v) ==
  {c \in Containers : s.owner[c] = v /\ Connected(s.children, c)}

HasRecord(s, v) == s.cleanupMap[v] # NoNode

\* a video the tracker has nothing on
Unenhanced(s, v) == v \notin s.enhanced /\ ~HasRecord(s, v)

\* C1: attach twice on an Unenhanced video of the document gives exactly one
\* overlay container and one teardown record, and the second call changes
\* nothing.
C1_AttachIdempotent ==
  \A v \in Videos :
    (Unenhanced(Cur, v) /\ Connected(children, v)) =>
      LET s1 == createControls(Cur, v)
          s2 == createControls(s1, v)
      IN  /\ Cardinality(OverlaysOf(s1, v)) = 1
          /\ HasRecord(s1, v)
          /\ Tracking(s2) = Tracking(s1)

\* C2: attach then detach leaves no overlay container, no membership and no
\* teardown record for the video, and a further attach then builds a container
\* and a record as for a video never seen.
C2_RoundTrip ==
  \A v \in Videos :
    (Unenhanced(Cur, v) /\ Connected(children, v)) =>
      LET s1 == createControls(Cur, v)
          s2 == cleanupVideo(s1, v)
          s3 == createControls(s2, v)
      IN  /\ OverlaysOf(s2, v) = {}
          /\ Unenhanced(s2, v)
          /\ Cardinality(OverlaysOf(s3, v)) = 1
          /\ HasRecord(s3, v)
          /\ v \in s3.enhanced

\* C3: every video has at most one overlay container under a parent (so at
\* most one in the document), and its teardown record is the one for that
\* container.
C3_AtMostOneOverlay ==
  \A v \in Videos :
    /\ Cardinality(OverlaysOf(Cur, v)) <= 1
    /\ Cardinality(OverlaysInDocument(Cur, v)) <= 1
    /\ \A c \in OverlaysOf(Cur, v) : cleanupMap[v] = c

\* a video was torn down and enhanced again by the last handler, and both
\* videos carry one overlay in the document
C3_Witness ==
  /\ \A v \in Videos : Cardinality(OverlaysInDocument(Cur, v)) = 1
  /\ \E i, j \in 1..Len(lastOp.calls) :
       /\ i < j
       /\ lastOp.calls[i][1] = "cleanupVideo" /\ lastOp.calls[i][3] = "torn-down"
       /\ lastOp.calls[j] = <<"createControls", lastOp.calls[i][2], "created">>

\* C4 as claimed: the overlay of every video with a teardown record is a child
\* of the attachment point resolved at attach time, and no overlay is under a
\* parent without a live teardown record.
C4_ChildOfAttachmentPoint ==
  /\ \A v \in Videos :
       HasRecord(Cur, v) =>
         ParentOf(children, cleanupMap[v]) = attachedAt[cleanupMap[v]]
  /\ \A c \in Containers :
       ParentOf(children, c) # NoNode =>
         owner[c] \in Videos /\ cleanupMap[owner[c]] = c

\* C4 amended: the overlay of a video with a teardown record is a child of
\* the attach-time attachment point or, when the page removed it, of no node;
\* an overlay under a parent always has a live teardown record, so after
\* teardown it is a child of no node.
C4_NoOrphanedOverlay ==
  /\ \A v \in Videos :
       HasRecord(Cur, v) =>
         /\ owner[cleanupMap[v]] = v
         /\ ParentOf(children, cleanupMap[v]) \in {attachedAt[cleanupMap[v]], NoNode}
  /\ \A c \in Containers :
       ParentOf(children, c) # NoNode =>
         owner[c] \in Videos /\ cleanupMap[owner[c]] = c

\* the last handler tore one video down, nothing of its overlay is left, and
\* the other video keeps its overlay under its attachment point
C4_Witness ==
  \E v, w \in Videos :
    /\ v # w
    /\ \E i \in 1..Len(lastOp.calls) :
         lastOp.calls[i] = <<"cleanupVideo", v, "torn-down">>
    /\ Unenhanced(Cur, v) /\ OverlaysOf(Cur, v) = {}
    /\ HasRecord(Cur, w)
    /\ ParentOf(children, cleanupMap[w]) = attachedAt[cleanupMap[w]]

\* C5: detach of a video that has no teardown record (torn down before, or
\* never enhanced) raises nothing and changes nothing; so does running the
\* teardown closure itself a second time.
C5_DetachIdempotent ==
  \A v \in Videos :
    LET s1 == cleanupVideo(Cur, v)
        s2 == cleanupVideo(s1, v)
    IN  /\ Last(s2.calls) = <<"cleanupVideo", v, "no-record">>
        /\ Tracking(s2) = Tracking(s1)
        /\ HasRecord(Cur, v) =>
             Tracking(cleanup(s1, v, cleanupMap[v])) = Tracking(s1)
        /\ Unenhanced(Cur, v) =>
             /\ Last(s1.calls) = <<"cleanupVideo", v, "no-record">>
             /\ Tracking(s1) = Tracking(Cur)

\* the last handler detached one video twice: first the teardown, then nothing
C5_Witness ==
  \E i, j \in 1..Len(lastOp.calls) :
    /\ i < j
    /\ lastOp.calls[i][1] = "cleanupVideo" /\ lastOp.calls[i][3] = "torn-down"
    /\ lastOp.calls[j] = <<"cleanupVideo", lastOp.calls[i][2], "no-record">>
    /\ Unenhanced(Cur, lastOp.calls[i][2])

\* a video that was enhanced in the document and is now outside it
Unmounted(v) == v \in mounted /\ ~Connected(children, v)

C7_SkipOnlyWhenLinked ==
  \A v \in Videos :
    (Unenhanced(Cur, v) /\ Connected(children, v)) =>
      LET s1 == createControls(Cur, v)
          existing == QueryContainer(children, findAttachmentParent(children, v))
      IN  Last(s1.calls)[3] # "created" =>
            /\ existing # NoNode
            /\ ForVideo(existing) # NoId
            /\ ForVideo(existing) = customId[v]

\* C8: once the watcher has taken every record, every video in the document
\* is in the Enhancement Set.
C8_InsertionTracked ==
  records = <<>> =>
    \A v \in Videos : Connected(children, v) => v \in enhanced

\* C9: once the watcher has taken every record, no video that was Enhanced in
\* the document and has left it is still tracked: it is not in the Enhancement
\* Set, has no teardown record and no overlay.
C9_RemovalTracked ==
  records = <<>> =>
    \A v \in Videos :
      Unmounted(v) => Unenhanced(Cur, v) /\ OverlaysOf(Cur, v) = {}

\* what C10 compares: the Enhancement Set, the videos with a teardown record
\* and the videos with an overlay
Outcome(s) ==
  [enhanced |-> s.enhanced,
   records |-> {v \in Videos : HasRecord(s, v)},
   overlays |-> {v \in Videos : OverlaysOf(s, v) # {}}]

Apply(op, s, v) == IF op = "attach" THEN createControls(s, v) ELSE cleanupVideo(s, v)

\* C10: attach or detach of one video and attach or detach of another give
\* the same outcome in either order.
C10_Independent ==
  \A a, b \in Videos : \A opA, opB \in {"attach", "detach"} :
    (a # b /\ Connected(children, a) /\ Connected(children, b)) =>
      Outcome(Apply(opB, Apply(opA, Cur, a), b))
        = Outcome(Apply(opA, Apply(opB, Cur, b), a))

\* the videos the callback is handed by the added nodes of the records ms
AddedVideos(ch, ms) ==
  UNION {UNION {IF n \in Videos THEN {n} ELSE Range(QueryVideos(ch, n)) :
                  n \in Range(ms[i].added)} : i \in 1..Len(ms)}

\* createControls ran on v and returned
Attempted(s, v) ==
  \E i \in 1..Len(s.calls) :
    /\ s.calls[i][1] = "createControls"
    /\ s.calls[i][2] = v
    /\ s.calls[i][3] # "threw"

\* C11: when createControls throws for a video of the pending batch, the
\* callback still runs createControls on every other video the batch inserts.
C11_BatchFaultIsolation ==
  LET s == ProcessMutations(Cur, records)
  IN  (\E i \in 1..Len(s.calls) : s.calls[i][3] = "threw") =>
        \A v \in AddedVideos(children, records) \ faulty : Attempted(s, v)

\* C12: in the start-up pass and in enhanceAll no exception reaches the
\* caller, and createControls runs on every video of the document that does
\* not throw.
C12_ScanFaultIsolation ==
  /\ LET s == EnhanceDocument(Cur)
     IN  /\ ~Threw(s)
         /\ \A v \in Range(QueryVideos(children, Body)) \ faulty : Attempted(s, v)
  /\ LET s == enhanceAll(Cur)
     IN  /\ ~Threw(s)
         /\ \A v \in Range(QueryVideos(children, Body)) \ faulty : Attempted(s, v)

Command(c) == [action |-> "command", command |-> c]

\* C13: with no video in the document every command function, called with
\* any argument or by a command message, returns false and writes no media
\* attribute; and no command step changes what the tracker holds.
C13_NoVideoNoEffect ==
  /\ [](QueryVideos(children, Body) = <<>> =>
          /\ \A h \in Handlers : \A arg \in DebugArgs(h) :
               Call(media, h, arg) = Done(media, "false", <<>>)
          /\ \A c \in DOMAIN commandHandlers :
               onMessage(media, Command(c))
                 = Reply(media, Response("false", ""), "returned",
                         commandHandlers[c]))
  /\ [][(lastOp'.op \in {"debug", "message"}
           /\ QueryVideos(children, Body) = <<>>)
          => UNCHANGED <<tracker, media>>]_vars

\* a command message was answered with failure in a document without videos
C13_Witness ==
  /\ QueryVideos(children, Body) = <<>>
  /\ lastOp.op = "message"
  /\ lastOp.result = <<"play-pause", Response("false", ""), "returned">>

\* the next higher and next lower entry of the list, or r itself at an end
Faster(r) ==
  LET above == {x \in Range(PLAYBACK_SPEEDS) : x > r}
  IN  IF above = {} THEN r ELSE CHOOSE x \in above : \A y \in above : x <= y

Slower(r) ==
  LET below == {x \in Range(PLAYBACK_SPEEDS) : x < r}
  IN  IF below = {} THEN r ELSE CHOOSE x \in below : \A y \in below : x >= y

\* the rates of the active video after 1..n calls of increaseSpeed
RECURSIVE Increases(_, _, _)
Increases(md, video, n) ==
  IF n = 0 THEN <<>>
  ELSE LET after == increaseSpeed(md).media
       IN  <<after[video].playbackRate>> \o Increases(after, video, n - 1)

\* C14: when the active video runs at a rate of the list, increaseSpeed sets
\* the next higher entry and stays at 2, decreaseSpeed sets the next lower
\* entry and stays at 0.25, nothing else is written, and five increases from
\* 1 give 1.25, 1.5, 1.75, 2, 2.
C14_SpeedClamped ==
  LET video == getActiveVideo(children)
  IN  (video # NoNode /\ media[video].playbackRate \in Range(PLAYBACK_SPEEDS)) =>
        LET r == media[video].playbackRate
        IN  /\ increaseSpeed(media).media
                 = [media EXCEPT ![video].playbackRate = Faster(r)]
            /\ decreaseSpeed(media).media
                 = [media EXCEPT ![video].playbackRate = Slower(r)]
            /\ Faster(200) = 200 /\ Slower(25) = 25
            /\ r = 100 => Increases(media, video, 5) = <<125, 150, 175, 200, 200>>

\* increaseSpeed has just run on a video that plays at 2x and is the fastest
\* it can get
C14_Witness ==
  /\ lastOp.op = "debug"
  /\ lastOp.result = <<"increaseSpeed", "true">>
  /\ media[lastOp.arg].playbackRate = 200
  /\ increaseSpeed(media).media = media

\* the value a seek or volume command assigns
Written(r) == r.wrote[1][3]

\* C15: for an active video with currentTime in [0, duration], the
\* currentTime seekForward(N) and seekBackward(N) assign is in [0, duration],
\* for the default N and for every N passed through the debug interface.
C15_SeekClamped ==
  LET video == getActiveVideo(children)
  IN  (video # NoNode /\ media[video].currentTime >= 0
         /\ media[video].currentTime <= media[video].duration) =>
        \A h \in Seeks : \A N \in DebugArgs(h) :
          /\ Written(Call(media, h, N)) >= 0
          /\ Written(Call(media, h, N)) <= media[video].duration

\* C16: for an active video with volume in [0, 1], the volume increaseVolume
\* and decreaseVolume assign is in [0, 1], for the default amount and for
\* every amount passed through the debug interface.
C16_VolumeClamped ==
  LET video == getActiveVideo(children)
  IN  (video # NoNode /\ media[video].volume \in 0..10) =>
        \A h \in Volumes : \A amount \in DebugArgs(h) :
          /\ Written(Call(media, h, amount)) \in 0..10
          /\ Call(media, h, amount).result = "true"

\* C17: a message whose command is not one of the nine of the table is
\* answered with success false, runs no command function, writes no media
\* attribute and raises nothing.
C17_UnknownCommandFails ==
  \A c \in Commands \ DOMAIN commandHandlers :
    LET r == onMessage(media, Command(c))
    IN  /\ r.outcome = "returned"
        /\ r.response # <<>>
        /\ r.response[1].success = "false"
        /\ r.ran = ""
        /\ r.media = media

\* C18: enhancedCount() returns the number of videos that hold a teardown
\* record.
C18_CountsEnhanced ==
  enhancedCount(Cur) = Cardinality({v \in Videos : HasRecord(Cur, v)})

\* C19: after cleanupAll() no video is in the Enhancement Set, no teardown
\* record is left and no overlay is in the document.
C19_CleanupAllTearsDown ==
  LET s == cleanupAll(Cur)
  IN  /\ s.enhanced = {}
      /\ \A v \in Videos : ~HasRecord(s, v)
      /\ \A c \in Containers : ~Connected(s.children, c)

\* the choice C20 describes, as an index into the boxes of the document's
\* videos (0 for none)
Selected(rects) ==
  LET n == Len(rects)
      inView == {i \in 1..n : Qualifies(rects[i])}
  IN  IF n = 0 THEN 0
      ELSE IF n = 1 THEN 1
      ELSE IF inView # {} THEN CHOOSE i \in inView : \A j \in inView : i <= j
      ELSE CHOOSE i \in 1..n :
             /\ \A j \in 1..n : Area(rects[i]) >= Area(rects[j])
             /\ \A j \in 1..(i - 1) : Area(rects[j]) < Area(rects[i])

C25_SpeedToggleLoops ==
  LET video == getActiveVideo(children)
  IN  (video # NoNode /\ media[video].playbackRate \in Range(PLAYBACK_SPEEDS)) =>
        LET r == media[video].playbackRate
            after == onMessage(media, Command("speed-toggle")).media
        IN  after[video].playbackRate
              = IF r = 200 THEN PLAYBACK_SPEEDS[1] ELSE Faster(r)

\* the lifecycle calls a node of a record leads to: the node itself when it
\* is a video, else its descendant videos in tree order
CallsOn(ch, fn, nodes) ==
  LET Videos_(n) == IF n \in Videos THEN <<n>> ELSE QueryVideos(ch, n)
      RECURSIVE Each(_)
      Each(ns) == IF ns = <<>> THEN <<>>
                  ELSE [i \in 1..Len(Videos_(Head(ns))) |-> <<fn, Videos_(Head(ns))[i]>>]
                         \o Each(Tail(ns))
  IN  Each(nodes)

\* the order C26 describes for a batch
RECURSIVE InOrder(_, _)
InOrder(ch, ms) ==
  IF ms = <<>> THEN <<>>
  ELSE CallsOn(ch, "createControls", Head(ms).added)
         \o CallsOn(ch, "cleanupVideo", Head(ms).removed)
         \o InOrder(ch, Tail(ms))

C28_TrackingConsistent ==
  \A v \in Videos :
    /\ v \in enhanced <=> HasRecord(Cur, v)
    /\ v \in enhanced => \E c \in Containers : owner[c] = v

\* C30: whatever the rate of the active video, increaseSpeed does not lower
\* it, decreaseSpeed does not raise it, and the rate written is an entry of
\* the list.
C30_SpeedMonotone ==
  LET video == getActiveVideo(children)
  IN  video # NoNode =>
        LET r == media[video].playbackRate
            up == increaseSpeed(media).media[video].playbackRate
            down == decreaseSpeed(media).media[video].playbackRate
        IN  /\ up >= r /\ up \in Range(PLAYBACK_SPEEDS)
            /\ down <= r /\ down \in Range(PLAYBACK_SPEEDS)

\* C23: whatever the environment withholds at load (the DOM query, the
\* observer constructor, the body), no exception leaves the script, and once
\* the script has stopped the command listener is registered and the debug
\* interface is exposed.
C23_StartupSurvives ==
  /\ ~boot.escaped
  /\ boot.pc \in {"done", "aborted"} => boot.listening /\ boot.debug

\* durations and positions a renderer can be handed: no metadata, negative,
\* zero, positive; before the start, inside, past the end
ProgressDurations == {NaN, -3} \cup 0..MaxTime
ProgressTimes == -1..(MaxTime + 1)

\* C21: for every slider and video, whatever the duration and position, the
\* fill updateProgress sets is currentTime / duration * 100 clamped to
\* [0, 100] when the duration is a number above 0 and 0 otherwise; with the
\* video or the control missing it changes nothing.
C21_ProgressFidelity ==
  \A c \in Containers, v \in Videos :
    \A a \in {NoNode, c}, dur \in ProgressDurations, cur \in ProgressTimes :
      LET md == [media EXCEPT ![v].duration = dur, ![v].currentTime = cur]
          fill == updateProgress(sliders, md, v, c, a)[c].fill
      IN  /\ IF ~IsNaN(dur) /\ dur > 0
             THEN IF cur <= 0 THEN fill = <<0, 1>>
                  ELSE IF cur >= dur THEN fill = <<100, 1>>
                  ELSE fill[2] > 0 /\ fill[1] * dur = 100 * cur * fill[2]
             ELSE fill = <<0, 1>>
          /\ updateProgress(sliders, md, NoNode, c, a) = sliders
          /\ updateProgress(sliders, md, v, NoNode, a) = sliders

\* a timeupdate has just drawn a slider half full
C21_Witness ==
  /\ lastOp.op = "timeupdate"
  /\ \E c \in lastOp.result[1] : sliders[c].fill = <<50, 1>>

\* the sliders a step has just re-rendered for a media event
Rerendered(op) == IF op.op \in VideoEvents THEN op.result[1] ELSE {}

\* C22 as stated: a re-render leaves the value of a focused slider as it
\* was, sets the value of an unfocused one to currentTime when the duration
\* is known, and in both cases sets max to the duration when it is known.
C22_FocusGuard ==
  [][\A c \in Rerendered(lastOp') :
       LET v == lastOp'.arg
       IN  /\ focus = c => sliders'[c].value = sliders[c].value
           /\ (focus # c /\ ~IsNaN(media'[v].duration)) =>
                 sliders'[c].value = media'[v].currentTime
           /\ ~IsNaN(media'[v].duration) => sliders'[c].max = media'[v].duration
    ]_vars

\* C22 amended: a re-render never assigns the value of a focused slider; the
\* value changes only where the control clamps it to the max the re-render
\* sets.  The other two parts are as stated.
C22_FocusGuardClamped ==
  [][\A c \in Rerendered(lastOp') :
       LET v == lastOp'.arg
       IN  /\ focus = c =>
                 sliders'[c].value = Sanitize(sliders[c].value, sliders'[c].max)
           /\ (focus # c /\ ~IsNaN(media'[v].duration)) =>
                 sliders'[c].value = media'[v].currentTime
           /\ ~IsNaN(media'[v].duration) => sliders'[c].max = media'[v].duration
    ]_vars

\* a timeupdate has just re-rendered the focused slider with the video
\* somewhere else than the thumb
C22_Witness ==
  /\ lastOp.op = "timeupdate"
  /\ focus \in lastOp.result[1]
  /\ sliders[focus].value # media[lastOp.arg].currentTime
  /\ sliders[focus].max = media[lastOp.arg].duration

\* C27: the input listener of a slider always returns; when the engine takes
\* the assignment the video is where the thumb is and the slider is drawn
\* for that position; when the engine rejects it the position, the
\* Enhancement Set, the bindings, the container and the record are as
\* before.
C27_ScrubInput ==
  [][lastOp'.op = "input" =>
       LET c == lastOp'.arg
           v == owner[c]
           how == lastOp'.calls[1][3]
       IN  /\ how \in {"returned", "caught"}
           /\ how = "returned" =>
                 /\ media'[v].currentTime = sliders'[c].value
                 /\ sliders' = updateProgress(sliders', media', v, c, focus)
           /\ how = "caught" =>
                 /\ media' = media
                 /\ UNCHANGED tracker
                 /\ v \in enhanced' /\ cleanupMap'[v] = c
    ]_vars

\* the engine has just rejected a position the user chose
C27_Witness ==
  /\ lastOp.op = "input"
  /\ lastOp.calls[1][3] = "caught"
  /\ sliders[lastOp.arg].value # media[owner[lastOp.arg]].currentTime

\* the overlay containers that sit under some parent
Overlays(ch, ow) ==
  {c \in Containers : ow[c] # NoNode /\ ParentOf(ch, c) # NoNode}

\* the Enhancement Set, the teardown records and the overlay containers
Tracked(s) == <<s.enhanced, s.cleanupMap, Overlays(s.children, s.owner)>>

\* C24: a command message, a call of the selector and a media event leave the
\* Enhancement Set, the teardown records and the set of overlay containers as
\* they were; any step that changes one of them is a call of createControls
\* that attached or of cleanupVideo that ran a teardown.
C24_Frame ==
  [][LET before == Tracked(Cur)
         after == <<enhanced', cleanupMap', Overlays(children', owner')>>
     IN  /\ lastOp'.op \in {"message", "activeVideo"} \cup VideoEvents =>
               after = before
         /\ after # before =>
               /\ lastOp'.op \in {"createControls", "cleanupVideo"}
               /\ \E i \in 1..Len(lastOp'.calls) :
                    lastOp'.calls[i][3] \in {"created", "linked", "torn-down"}
    ]_vars

\* a command message has just changed the speed of a reel while the other
\* reel holds a teardown record and an overlay
C24_Witness ==
  /\ lastOp.op = "message"
  /\ lastOp.result = <<"speed-up", Response("true", ""), "returned">>
  /\ \E v \in Videos :
       /\ HasRecord(Cur, v)
       /\ OverlaysOf(Cur, v) # {}
       /\ lastOp.arg # v
       /\ media[lastOp.arg].playbackRate > 100

\* the lifecycle function a callback called last on video v, "" if none
LastOn(log, v) ==
  LET at == {i \in 1..Len(log) : log[i][2] = v}
  IN  IF at = {} THEN ""
      ELSE log[CHOOSE i \in at : \A j \in at : j <= i][1]

\* C29: with two copies of the script in the page, each with its own
\* Enhancement Set and teardown records, no video ever has more than one
\* overlay container, and when the later of the two observer callbacks has
\* handled a batch that ends with a video's removal, the video has no
\* overlay container.
C29_TwoTrackers ==
  /\ \A v \in Videos : Cardinality(OverlaysOf(Cur, v)) <= 1
  /\ (lastOp.op \in {"observer", "observer2"}
        /\ records = <<>> /\ second.records = <<>>) =>
       \A v \in Videos :
         (LastOn(lastOp.calls, v) = "cleanupVideo" /\ ~Connected(children, v))
           => OverlaysOf(Cur, v) = {}


\* C31: a createControls call that throws leaves the video Unenhanced, with
\* no listener on it that was not there before the call and no overlay
\* container of it in the document that was not there before, and a
\* createControls call that builds the overlay leaves exactly one listener
\* per media event on the video.
C31_AttachAtomic ==
  [][\A v \in Videos :
       (lastOp'.op = "createControls" /\ lastOp'.arg = v) =>
         /\ lastOp'.calls[1][3] = "threw" =>
              /\ v \notin enhanced'
              /\ cleanupMap'[v] = NoNode
              /\ {l \in vListeners' : l[1] = v} \subseteq vListeners
              /\ \A c \in Containers :
                   (owner'[c] = v /\ Connected(children', c)) =>
                     (owner[c] = v /\ Connected(children, c))
         /\ lastOp'.calls[1][3] = "created" =>
              \A e \in VideoEvents :
                Cardinality({l \in vListeners' : l[1] = v /\ l[2] = e}) = 1
    ]_vars

\* the box and the viewport rectangle [0, innerWidth] x [0, innerHeight],
\* edges included, have a point in common
Touches(r) ==
  \E x \in 0..inner.width, y \in 0..inner.height :
    /\ r.left <= x /\ x <= Right(r)
    /\ r.top <= y /\ y <= Bottom(r)

\* C32: for every box with non-negative sides and every viewport size, the
\* near-viewport test of getActiveVideo is true exactly when the box and the
\* viewport rectangle overlap or touch.
C32_NearViewport ==
  lastOp.op = "isInViewport" =>
    LET call == lastOp.calls[1]
    IN  (call[3] = "near") <=> Touches(probe[call[2][2]])

\* the test has just accepted a box that only touches the viewport, with its
\* bottom-right corner on the viewport's top-left corner
C32_Witness ==
  /\ lastOp.op = "isInViewport"
  /\ lastOp.calls[1][3] = "near"
  /\ LET r == probe[lastOp.calls[1][2][2]]
     IN  r.width > 0 /\ r.height > 0 /\ Bottom(r) = 0 /\ Right(r) = 0
====
